---- MODULE Spec2Model ----
(***************************************************************************)
(* Model of cmsc23.py: the BankAccount hierarchy (PayrollAccount,          *)
(* DebitAccount, CreditAccount) and the BankSystem registry.               *)
(*                                                                         *)
(* Money is a decimal number in the program.  Here an amount is an integer *)
(* count of 1/Scale currency units, Scale = 100^MaxMonths, so that the     *)
(* interest factors 1.01 and 1.02 are computed exactly for as long as the  *)
(* value is a multiple of 100; monthly_update is only taken while that is  *)
(* the case.                                                               *)
(***************************************************************************)
EXTENDS Integers, Sequences, FiniteSets, TLC

VARIABLES accounts, last, steps

vars == <<accounts, last, steps>>

(* ------------------------------ bounds -------------------------------- *)
\* accounts the registry may hold
MaxAccounts == 3
\* times interest may be compounded on one value before it stops being exact
MaxMonths == 1
\* calls in a run
MaxSteps == 4

Scale == 100 ^ MaxMonths

Cur(x) == x * Scale

(* ------------------------- program constants -------------------------- *)
\* DebitAccount.__init__ defaults: interest_rate=0.01, required_balance=100.0
DebitInterestPercent == 1
DebitRequiredBalance == Cur(100)
\* CreditAccount.__init__ defaults: credit_limit=500.0, interest_rate=0.02
CreditLimit == Cur(500)
CreditInterestPercent == 2

(* ------------------------------ inputs -------------------------------- *)
AccountTypes == {"payroll", "debit", "credit", "savings"}
Owners == {"Alice"}
InitialBalances == {Cur(50), Cur(200)}
NonNegAmounts == {Cur(0), Cur(50), Cur(500)}
Amounts == {Cur(0 - 50), Cur(50), Cur(500)}

(* ----------------------- account number format ------------------------ *)
DigitChar == <<"0", "1", "2", "3", "4", "5", "6", "7", "8", "9">>

RECURSIVE Digits(_)
Digits(n) ==
    IF n < 10 THEN <<DigitChar[n + 1]>>
    ELSE Digits(n \div 10) \o <<DigitChar[(n % 10) + 1]>>

RECURSIVE ZeroPad(_, _)
ZeroPad(s, width) ==
    IF Len(s) >= width THEN s ELSE ZeroPad(<<"0">> \o s, width)

\* mutant: the index is the count before the insertion (0-based)
AccountNumber_zero_based(n) == <<"A", "C", "C">> \o ZeroPad(Digits(n - 1), 4)

\* f"ACC{n:04}"
AccountNumber(n) == <<"A", "C", "C">> \o ZeroPad(Digits(n), 4)

\* an identifier that is never created
UnknownId == AccountNumber(MaxAccounts + 1)

NoId == <<>>

(* ---------------------------- constructors ---------------------------- *)
BankAccount(account_number, owner, balance) ==
    [account_number |-> account_number, owner |-> owner,
     balance |-> balance, is_active |-> TRUE]

NewPayrollAccount(account_number, owner, balance) ==
    [cls |-> "PayrollAccount"] @@ BankAccount(account_number, owner, balance)

NewDebitAccount(account_number, owner, balance) ==
    [cls |-> "DebitAccount", interest_rate |-> DebitInterestPercent,
     required_balance |-> DebitRequiredBalance]
        @@ BankAccount(account_number, owner, balance)

\* mutant: the amount owed starts at the initial balance
NewCreditAccount_owes_balance(account_number, owner, balance) ==
    [cls |-> "CreditAccount", credit_limit |-> CreditLimit,
     credit_balance |-> balance, interest_rate |-> CreditInterestPercent]
        @@ BankAccount(account_number, owner, balance)

NewCreditAccount(account_number, owner, balance) ==
    [cls |-> "CreditAccount", credit_limit |-> CreditLimit, credit_balance |-> 0,
     interest_rate |-> CreditInterestPercent]
        @@ BankAccount(account_number, owner, balance)

activate_account(self) == [self EXCEPT !.is_active = TRUE]

\* mutant: the flag is flipped
deactivate_account_toggles(self) == [self EXCEPT !.is_active = ~@]

deactivate_account(self) == [self EXCEPT !.is_active = FALSE]

(***************************************************************************)
(* The money-moving methods.  withdraw and deposit take the account and    *)
(* give [acc, ret]: the account after the call and what the call returned  *)
(* ("True", "False") or raised ("NotImplementedError").  transfer mutates  *)
(* two objects that may be the same one, so it takes the whole map and the *)
(* two keys, and applies the two assignments one after the other.          *)
(***************************************************************************)
PayrollAccount_withdraw(self, amount) ==
    IF ~self.is_active THEN [acc |-> self, ret |-> "False"]
    ELSE IF amount > self.balance THEN [acc |-> self, ret |-> "False"]
    ELSE [acc |-> [self EXCEPT !.balance = @ - amount], ret |-> "True"]

\* mutant: the active flag is tested before the operation is refused
PayrollAccount_deposit_checks_active(self, amount) ==
    IF ~self.is_active THEN [acc |-> self, ret |-> "False"]
    ELSE [acc |-> self, ret |-> "NotImplementedError"]

PayrollAccount_deposit(self, amount) ==
    [acc |-> self, ret |-> "NotImplementedError"]

PayrollAccount_transfer(accs, self, target, amount) ==
    [accs |-> accs, ret |-> "NotImplementedError"]

\* mutant: the balance is not tested
DebitAccount_withdraw_overdraws(self, amount) ==
    IF ~self.is_active THEN [acc |-> self, ret |-> "False"]
    ELSE [acc |-> [self EXCEPT !.balance = @ - amount], ret |-> "True"]

DebitAccount_withdraw(self, amount) ==
    IF ~self.is_active THEN [acc |-> self, ret |-> "False"]
    ELSE IF amount > self.balance THEN [acc |-> self, ret |-> "False"]
    ELSE [acc |-> [self EXCEPT !.balance = @ - amount], ret |-> "True"]

\* mutant: the active flag is not tested
DebitAccount_deposit_no_active_check(self, amount) ==
    [acc |-> [self EXCEPT !.balance = @ + amount], ret |-> "True"]

DebitAccount_deposit(self, amount) ==
    IF ~self.is_active THEN [acc |-> self, ret |-> "False"]
    ELSE [acc |-> [self EXCEPT !.balance = @ + amount], ret |-> "True"]

\* mutant: the target is credited before the balance is tested
DebitAccount_transfer_credits_first(accs, self, target, amount) ==
    IF ~accs[self].is_active THEN [accs |-> accs, ret |-> "False"]
    ELSE LET a0 == [accs EXCEPT ![target].balance = @ + amount]
         IN  IF amount > accs[self].balance THEN [accs |-> a0, ret |-> "False"]
             ELSE [accs |-> [a0 EXCEPT ![self].balance = @ - amount],
                   ret |-> "True"]

\* mutant: an inactive target is not credited
DebitAccount_transfer_active_target(accs, self, target, amount) ==
    IF ~accs[self].is_active THEN [accs |-> accs, ret |-> "False"]
    ELSE IF amount > accs[self].balance THEN [accs |-> accs, ret |-> "False"]
    ELSE LET a1 == [accs EXCEPT ![self].balance = @ - amount]
             a2 == IF a1[target].is_active
                   THEN [a1 EXCEPT ![target].balance = @ + amount]
                   ELSE a1
         IN  [accs |-> a2, ret |-> "True"]

\* mutant: the target's new balance is computed from its balance before the
\* source was debited
DebitAccount_transfer_stale_target(accs, self, target, amount) ==
    IF ~accs[self].is_active THEN [accs |-> accs, ret |-> "False"]
    ELSE IF amount > accs[self].balance THEN [accs |-> accs, ret |-> "False"]
    ELSE LET a1 == [accs EXCEPT ![self].balance = @ - amount]
             a2 == [a1 EXCEPT ![target].balance = accs[target].balance + amount]
         IN  [accs |-> a2, ret |-> "True"]

DebitAccount_transfer(accs, self, target, amount) ==
    IF ~accs[self].is_active THEN [accs |-> accs, ret |-> "False"]
    ELSE IF amount > accs[self].balance THEN [accs |-> accs, ret |-> "False"]
    ELSE LET a1 == [accs EXCEPT ![self].balance = @ - amount]
             a2 == [a1 EXCEPT ![target].balance = @ + amount]
         IN  [accs |-> a2, ret |-> "True"]

\* mutant: the amount is added to credit_limit, not to credit_balance
CreditAccount_withdraw_wrong_field(self, amount) ==
    IF ~self.is_active THEN [acc |-> self, ret |-> "False"]
    ELSE IF self.credit_balance + amount > self.credit_limit
         THEN [acc |-> self, ret |-> "False"]
    ELSE [acc |-> [self EXCEPT !.credit_limit = @ + amount], ret |-> "True"]

CreditAccount_withdraw(self, amount) ==
    IF ~self.is_active THEN [acc |-> self, ret |-> "False"]
    ELSE IF self.credit_balance + amount > self.credit_limit
         THEN [acc |-> self, ret |-> "False"]
    ELSE [acc |-> [self EXCEPT !.credit_balance = @ + amount], ret |-> "True"]

Max(a, b) == IF a >= b THEN a ELSE b

\* mutant: the repayment is not floored at 0
CreditAccount_deposit_no_floor(self, amount) ==
    IF ~self.is_active THEN [acc |-> self, ret |-> "False"]
    ELSE [acc |-> [self EXCEPT !.credit_balance = @ - amount], ret |-> "True"]

CreditAccount_deposit(self, amount) ==
    IF ~self.is_active THEN [acc |-> self, ret |-> "False"]
    ELSE [acc |-> [self EXCEPT !.credit_balance = Max(0, @ - amount)],
          ret |-> "True"]

\* mutant: the amount is also taken from the source's balance, as in
\* DebitAccount.transfer
CreditAccount_transfer_debits_balance(accs, self, target, amount) ==
    IF ~accs[self].is_active THEN [accs |-> accs, ret |-> "False"]
    ELSE IF accs[self].credit_balance + amount > accs[self].credit_limit
         THEN [accs |-> accs, ret |-> "False"]
    ELSE LET a1 == [accs EXCEPT ![self].credit_balance = @ + amount,
                                ![self].balance = @ - amount]
             a2 == [a1 EXCEPT ![target].balance = @ + amount]
         IN  [accs |-> a2, ret |-> "True"]

CreditAccount_transfer(accs, self, target, amount) ==
    IF ~accs[self].is_active THEN [accs |-> accs, ret |-> "False"]
    ELSE IF accs[self].credit_balance + amount > accs[self].credit_limit
         THEN [accs |-> accs, ret |-> "False"]
    ELSE LET a1 == [accs EXCEPT ![self].credit_balance = @ + amount]
             a2 == [a1 EXCEPT ![target].balance = @ + amount]
         IN  [accs |-> a2, ret |-> "True"]

\* x * (1 + percent/100), exact when x is a multiple of 100
WithInterest(x, percent) == x + (x \div 100) * percent

PayrollAccount_apply_monthly_changes(self) == self

\* mutant: the update does not test the active flag
DebitAccount_apply_monthly_changes_any(self) ==
    LET grown == [self EXCEPT !.balance = WithInterest(@, self.interest_rate)]
    IN  IF grown.balance < grown.required_balance
        THEN deactivate_account(grown)
        ELSE grown

\* mutant: an inactive account whose balance reaches the required balance is
\* activated again
DebitAccount_apply_monthly_changes_reactivates(self) ==
    IF self.is_active
    THEN LET grown == [self EXCEPT !.balance = WithInterest(@, self.interest_rate)]
         IN  IF grown.balance < grown.required_balance
             THEN deactivate_account(grown)
             ELSE grown
    ELSE IF self.balance >= self.required_balance
         THEN activate_account(self)
         ELSE self

DebitAccount_apply_monthly_changes(self) ==
    IF self.is_active
    THEN LET grown == [self EXCEPT !.balance = WithInterest(@, self.interest_rate)]
         IN  IF grown.balance < grown.required_balance
             THEN deactivate_account(grown)
             ELSE grown
    ELSE self

\* mutant: interest is charged on an inactive account too
CreditAccount_apply_monthly_changes_any(self) ==
    IF self.credit_balance > 0
    THEN [self EXCEPT !.credit_balance = WithInterest(@, self.interest_rate)]
    ELSE self

CreditAccount_apply_monthly_changes(self) ==
    IF self.is_active /\ self.credit_balance > 0
    THEN [self EXCEPT !.credit_balance = WithInterest(@, self.interest_rate)]
    ELSE self

(* ------------------------- dynamic dispatch --------------------------- *)
withdraw(self, amount) ==
    CASE self.cls = "PayrollAccount" -> PayrollAccount_withdraw(self, amount)
      [] self.cls = "DebitAccount"   -> DebitAccount_withdraw(self, amount)
      [] self.cls = "CreditAccount"  -> CreditAccount_withdraw(self, amount)

deposit(self, amount) ==
    CASE self.cls = "PayrollAccount" -> PayrollAccount_deposit(self, amount)
      [] self.cls = "DebitAccount"   -> DebitAccount_deposit(self, amount)
      [] self.cls = "CreditAccount"  -> CreditAccount_deposit(self, amount)

transfer(accs, self, target, amount) ==
    CASE accs[self].cls = "PayrollAccount" ->
            PayrollAccount_transfer(accs, self, target, amount)
      [] accs[self].cls = "DebitAccount" ->
            DebitAccount_transfer(accs, self, target, amount)
      [] accs[self].cls = "CreditAccount" ->
            CreditAccount_transfer(accs, self, target, amount)

apply_monthly_changes(self) ==
    CASE self.cls = "PayrollAccount" -> PayrollAccount_apply_monthly_changes(self)
      [] self.cls = "DebitAccount"   -> DebitAccount_apply_monthly_changes(self)
      [] self.cls = "CreditAccount"  -> CreditAccount_apply_monthly_changes(self)

(* ------------------------------ registry ------------------------------ *)
\* mutant: the loop stops before the last account
InsertionOrder_misses_last(accs) ==
    [i \in 1..(Cardinality(DOMAIN accs) - 1) |-> AccountNumber(i)]

\* the keys of the dict in insertion order
InsertionOrder(accs) == [i \in 1..Cardinality(DOMAIN accs) |-> AccountNumber(i)]

\* for account in self.accounts.values(): account.apply_monthly_changes()
RECURSIVE ApplyInOrder(_, _)
ApplyInOrder(accs, order) ==
    IF order = <<>> THEN accs
    ELSE ApplyInOrder([accs EXCEPT ![Head(order)] = apply_monthly_changes(@)],
                      Tail(order))

\* the interest of this update is computed without rounding
Representable(accs) ==
    \A k \in DOMAIN accs :
        /\ accs[k].cls = "DebitAccount" /\ accs[k].is_active
              => accs[k].balance % 100 = 0
        /\ accs[k].cls = "CreditAccount" /\ accs[k].is_active
              => accs[k].credit_balance % 100 = 0

Call(op, a, b, amount, type, ret) ==
    [op |-> op, a |-> a, b |-> b, amount |-> amount, type |-> type, ret |-> ret]

Init ==
    /\ accounts = <<>>
    /\ last = Call("init", NoId, NoId, 0, "", "None")
    /\ steps = 0

Step == steps < MaxSteps /\ steps' = steps + 1

create_account(account_type, owner, initial_balance) ==
    /\ Step
    /\ account_type \in {"payroll", "debit", "credit"}
          => Cardinality(DOMAIN accounts) < MaxAccounts
    /\ LET account_number == AccountNumber(Cardinality(DOMAIN accounts) + 1)
       IN  IF account_type \in {"payroll", "debit", "credit"}
           THEN LET account ==
                      CASE account_type = "payroll" ->
                              NewPayrollAccount(account_number, owner, initial_balance)
                        [] account_type = "debit" ->
                              NewDebitAccount(account_number, owner, initial_balance)
                        [] account_type = "credit" ->
                              NewCreditAccount(account_number, owner, initial_balance)
                IN  /\ accounts' = [k \in DOMAIN accounts \cup {account_number} |->
                                      IF k = account_number THEN account
                                      ELSE accounts[k]]
                    /\ last' = Call("create_account", account_number, NoId,
                                    initial_balance, account_type, "Account")
           ELSE /\ accounts' = accounts
                /\ last' = Call("create_account", NoId, NoId,
                                initial_balance, account_type, "ValueError")

Withdraw(k, amount) ==
    /\ Step
    /\ LET r == withdraw(accounts[k], amount)
       IN  /\ accounts' = [accounts EXCEPT ![k] = r.acc]
           /\ last' = Call("withdraw", k, NoId, amount, "", r.ret)

Deposit(k, amount) ==
    /\ Step
    /\ LET r == deposit(accounts[k], amount)
       IN  /\ accounts' = [accounts EXCEPT ![k] = r.acc]
           /\ last' = Call("deposit", k, NoId, amount, "", r.ret)

Transfer(k, t, amount) ==
    /\ Step
    /\ LET r == transfer(accounts, k, t, amount)
       IN  /\ accounts' = r.accs
           /\ last' = Call("transfer", k, t, amount, "", r.ret)

\* mutant: "and" for "or" in the membership test; the lookup of the absent
\* key then raises KeyError
transfer_funds_and(from_account, to_account, amount) ==
    /\ Step
    /\ IF from_account \notin DOMAIN accounts /\ to_account \notin DOMAIN accounts
       THEN /\ accounts' = accounts
            /\ last' = Call("transfer_funds", from_account, to_account, amount,
                            "", "False")
       ELSE IF from_account \notin DOMAIN accounts \/ to_account \notin DOMAIN accounts
       THEN /\ accounts' = accounts
            /\ last' = Call("transfer_funds", from_account, to_account, amount,
                            "", "KeyError")
       ELSE LET r == transfer(accounts, from_account, to_account, amount)
            IN  /\ accounts' = r.accs
                /\ last' = Call("transfer_funds", from_account, to_account,
                                amount, "", r.ret)

transfer_funds(from_account, to_account, amount) ==
    /\ Step
    /\ IF from_account \notin DOMAIN accounts \/ to_account \notin DOMAIN accounts
       THEN /\ accounts' = accounts
            /\ last' = Call("transfer_funds", from_account, to_account, amount,
                            "", "False")
       ELSE LET r == transfer(accounts, from_account, to_account, amount)
            IN  /\ accounts' = r.accs
                /\ last' = Call("transfer_funds", from_account, to_account,
                                amount, "", r.ret)

monthly_update ==
    /\ Step
    /\ Representable(accounts)
    /\ accounts' = ApplyInOrder(accounts, InsertionOrder(accounts))
    /\ last' = Call("monthly_update", NoId, NoId, 0, "", "None")

BankSystem_deactivate_account(account_number) ==
    /\ Step
    /\ accounts' = IF account_number \in DOMAIN accounts
                   THEN [accounts EXCEPT ![account_number] = deactivate_account(@)]
                   ELSE accounts
    /\ last' = Call("BankSystem.deactivate_account", account_number, NoId, 0,
                    "", "None")

BankSystem_activate_account(account_number) ==
    /\ Step
    /\ accounts' = IF account_number \in DOMAIN accounts
                   THEN [accounts EXCEPT ![account_number] = activate_account(@)]
                   ELSE accounts
    /\ last' = Call("BankSystem.activate_account", account_number, NoId, 0,
                    "", "None")

Deactivate(k) ==
    /\ Step
    /\ accounts' = [accounts EXCEPT ![k] = deactivate_account(@)]
    /\ last' = Call("deactivate_account", k, NoId, 0, "", "None")

Activate(k) ==
    /\ Step
    /\ accounts' = [accounts EXCEPT ![k] = activate_account(@)]
    /\ last' = Call("activate_account", k, NoId, 0, "", "None")

\* identifiers a caller passes to the registry: the known ones and an unknown one
CallerIds == DOMAIN accounts \cup {UnknownId}

NextWith(amounts) ==
    \/ \E ty \in AccountTypes, o \in Owners, b \in InitialBalances :
          create_account(ty, o, b)
    \/ \E k \in DOMAIN accounts, amt \in amounts : Withdraw(k, amt)
    \/ \E k \in DOMAIN accounts, amt \in amounts : Deposit(k, amt)
    \/ \E k \in DOMAIN accounts, t \in DOMAIN accounts, amt \in amounts :
          Transfer(k, t, amt)
    \/ \E f \in CallerIds, t \in CallerIds, amt \in amounts : transfer_funds(f, t, amt)
    \/ monthly_update
    \/ \E id \in CallerIds : BankSystem_deactivate_account(id)
    \/ \E id \in CallerIds : BankSystem_activate_account(id)
    \/ \E k \in DOMAIN accounts : Deactivate(k)
    \/ \E k \in DOMAIN accounts : Activate(k)

\* callers pass any amount, negative ones included
Next == NextWith(Amounts)

\* callers pass only amounts >= 0
NextNonNeg == NextWith(NonNegAmounts)

Spec == Init /\ [][Next]_vars

SpecNonNeg == Init /\ [][NextNonNeg]_vars

(***************************************************************************)
(* Properties.  A step of the system is one call; last' names the call     *)
(* (operation, receiver a, second account b, amount, type) and its         *)
(* outcome, accounts is the registry before it and accounts' after it.     *)
(***************************************************************************)
IsCredit(acc) == acc.cls = "CreditAccount"

\* no account's balance or credit_balance differs across the step
MoneyUnchanged ==
    /\ DOMAIN accounts' = DOMAIN accounts
    /\ \A k \in DOMAIN accounts :
          /\ accounts'[k].balance = accounts[k].balance
          /\ IsCredit(accounts[k]) =>
                accounts'[k].credit_balance = accounts[k].credit_balance

\* the step is withdraw, deposit or transfer invoked on an inactive account
CallOnInactive ==
    /\ last'.op \in {"withdraw", "deposit", "transfer"}
    /\ ~accounts[last'.a].is_active

\* the step is a call that PayrollAccount refuses whatever the state
PayrollRefuses ==
    /\ last'.op \in {"deposit", "transfer"}
    /\ accounts[last'.a].cls = "PayrollAccount"

\* C1 as stated: withdraw, deposit or transfer on an inactive account of any
\* variant returns false and changes no balance or credit_balance.
C1_ReturnsFalse ==
    [][CallOnInactive => last'.ret = "False" /\ MoneyUnchanged]_vars

\* C1 amended: withdraw, deposit or transfer on an inactive account changes no
\* balance or credit_balance; it returns false, except deposit and transfer
\* of a PayrollAccount, which raise NotImplementedError.
C1_InactiveRejects ==
    [][CallOnInactive =>
          /\ MoneyUnchanged
          /\ last'.ret = IF PayrollRefuses THEN "NotImplementedError"
                         ELSE "False"]_vars

C1_Witness ==
    /\ last.op = "transfer"
    /\ last.ret = "False"
    /\ ~accounts[last.a].is_active
    /\ accounts[last.a].cls = "DebitAccount"
    /\ last.amount <= accounts[last.a].balance

\* C2: every CreditAccount has 0 <= credit_balance <= credit_limit in every
\* reachable state.
C2_CreditBalanceInRange ==
    \A k \in DOMAIN accounts :
        IsCredit(accounts[k]) =>
            /\ 0 <= accounts[k].credit_balance
            /\ accounts[k].credit_balance <= accounts[k].credit_limit

C4_PayrollUnsupported ==
    [][(\/ PayrollRefuses
        \/ /\ last'.op = "transfer_funds"
           /\ last'.a \in DOMAIN accounts
           /\ last'.b \in DOMAIN accounts
           /\ accounts[last'.a].cls = "PayrollAccount")
       => last'.ret = "NotImplementedError" /\ accounts' = accounts]_vars

C4_Witness ==
    /\ last.op = "deposit"
    /\ last.ret = "NotImplementedError"
    /\ accounts[last.a].cls = "PayrollAccount"
    /\ ~accounts[last.a].is_active

\* C5: transfer_funds returns false and changes nothing when either id is
\* absent; with both present its result and effect are those of the source
\* account's transfer to the target.
C5_TransferFundsDelegates ==
    [][last'.op = "transfer_funds" =>
          IF last'.a \notin DOMAIN accounts \/ last'.b \notin DOMAIN accounts
          THEN last'.ret = "False" /\ accounts' = accounts
          ELSE LET r == transfer(accounts, last'.a, last'.b, last'.amount)
               IN  last'.ret = r.ret /\ accounts' = r.accs]_vars

C5_Witness ==
    /\ last.op = "transfer_funds"
    /\ last.ret = "False"
    /\ last.a \in DOMAIN accounts
    /\ accounts[last.a].cls = "PayrollAccount"
    /\ last.b \notin DOMAIN accounts

\* the identifier with index k as section 6 of the specification writes it,
\* for the indices below 10
ExpectedId(k) == <<"A", "C", "C", "0", "0", "0", DigitChar[k + 1]>>

SuccessfulCreate == last'.op = "create_account" /\ last'.ret = "Account"

\* C6: the keys are exactly the identifiers of indices 1..n, n the number of
\* successful creations; each account carries its own key, so no two share
\* one; a successful creation adds the key of index n+1 and touches no
\* existing entry; no other step changes the key set.
C6_SequentialIds ==
    /\ [](/\ DOMAIN accounts =
               {ExpectedId(k) : k \in 1..Cardinality(DOMAIN accounts)}
          /\ \A k \in DOMAIN accounts : accounts[k].account_number = k)
    /\ [][IF SuccessfulCreate
          THEN /\ last'.a = ExpectedId(Cardinality(DOMAIN accounts) + 1)
               /\ last'.a \notin DOMAIN accounts
               /\ DOMAIN accounts' = DOMAIN accounts \cup {last'.a}
               /\ \A k \in DOMAIN accounts : accounts'[k] = accounts[k]
          ELSE DOMAIN accounts' = DOMAIN accounts]_vars

C6_Witness ==
    /\ last.op = "create_account"
    /\ last.ret = "Account"
    /\ last.a = <<"A", "C", "C", "0", "0", "0", "3">>
    /\ Cardinality(DOMAIN accounts) = 3
    /\ \E k \in DOMAIN accounts : ~accounts[k].is_active

ClassOf(type) ==
    CASE type = "payroll" -> "PayrollAccount"
      [] type = "debit"   -> "DebitAccount"
      [] type = "credit"  -> "CreditAccount"

\* C7: create_account with an unknown type raises ValueError and leaves the
\* registry, and so the next identifier, as they were; with a known type it
\* stores a new active account of that type with the given balance (and
\* credit_balance 0 for credit) and changes no existing account.
C7_CreateAccount ==
    [][last'.op = "create_account" =>
          IF last'.type \in {"payroll", "debit", "credit"}
          THEN /\ last'.ret = "Account"
               /\ last'.a \notin DOMAIN accounts
               /\ DOMAIN accounts' = DOMAIN accounts \cup {last'.a}
               /\ \A k \in DOMAIN accounts : accounts'[k] = accounts[k]
               /\ accounts'[last'.a].cls = ClassOf(last'.type)
               /\ accounts'[last'.a].is_active
               /\ accounts'[last'.a].balance = last'.amount
               /\ IsCredit(accounts'[last'.a]) =>
                     accounts'[last'.a].credit_balance = 0
          ELSE /\ last'.ret = "ValueError"
               /\ accounts' = accounts
               /\ AccountNumber(Cardinality(DOMAIN accounts') + 1)
                     = AccountNumber(Cardinality(DOMAIN accounts) + 1)]_vars

C7_Witness ==
    /\ last.op = "create_account"
    /\ last.ret = "ValueError"
    /\ last.type = "savings"
    /\ Cardinality(DOMAIN accounts) = 1

\* C8: after a monthly update every DebitAccount below its required balance
\* is inactive; one that was active has had 1% added and is inactive exactly
\* when the new balance is below the required balance; one that was inactive
\* is as it was.
C8_DebitMonthly ==
    [][last'.op = "monthly_update" =>
          \A k \in DOMAIN accounts :
              accounts[k].cls = "DebitAccount" =>
                  LET pre == accounts[k]
                      post == accounts'[k]
                  IN  /\ post.balance < post.required_balance => ~post.is_active
                      /\ IF pre.is_active
                         THEN /\ 100 * (post.balance - pre.balance) = pre.balance
                              /\ post.is_active =
                                    ~(post.balance < pre.required_balance)
                              /\ post = [pre EXCEPT !.balance = post.balance,
                                                    !.is_active = post.is_active]
                         ELSE post = pre]_vars

\* balance 50 has become 50.5 and the account is inactive
C8_Witness ==
    /\ last.op = "monthly_update"
    /\ \E k \in DOMAIN accounts :
          /\ accounts[k].cls = "DebitAccount"
          /\ 2 * accounts[k].balance = Cur(101)
          /\ ~accounts[k].is_active

\* the step is a transfer, direct or through the registry, between two
\* accounts of the registry
TransferCall ==
    /\ last'.op \in {"transfer", "transfer_funds"}
    /\ last'.a \in DOMAIN accounts
    /\ last'.b \in DOMAIN accounts

DebitTransferGranted ==
    /\ TransferCall
    /\ accounts[last'.a].cls = "DebitAccount"
    /\ accounts[last'.a].is_active
    /\ last'.amount <= accounts[last'.a].balance

\* the source has lost the amount, the target has gained it in balance, and
\* nothing else differs
MovedBetween(src, tgt, amount) ==
    /\ accounts'[src] = [accounts[src] EXCEPT !.balance = @ - amount]
    /\ accounts'[tgt] = [accounts[tgt] EXCEPT !.balance = @ + amount]
    /\ \A k \in DOMAIN accounts \ {src, tgt} : accounts'[k] = accounts[k]
    /\ DOMAIN accounts' = DOMAIN accounts

C10_CreditTransfer ==
    [][/\ (/\ TransferCall
           /\ IsCredit(accounts[last'.a])
           /\ accounts[last'.a].is_active
           /\ accounts[last'.a].credit_balance + last'.amount
                 <= accounts[last'.a].credit_limit)
          => /\ last'.ret = "True"
             /\ accounts'[last'.a].credit_balance =
                   accounts[last'.a].credit_balance + last'.amount
             /\ accounts'[last'.b].balance =
                   accounts[last'.b].balance + last'.amount
       /\ (/\ last'.op \in {"withdraw", "deposit", "transfer", "transfer_funds"}
           /\ last'.a \in DOMAIN accounts
           /\ IsCredit(accounts[last'.a])
           /\ last'.b # last'.a)
          => accounts'[last'.a].balance = accounts[last'.a].balance
       /\ \A k \in DOMAIN accounts :
             IsCredit(accounts[k]) /\ accounts'[k].balance # accounts[k].balance
                => /\ last'.op \in {"transfer", "transfer_funds"}
                   /\ last'.b = k
                   /\ last'.ret = "True"]_vars

C10_Witness ==
    /\ last.op = "transfer"
    /\ last.ret = "True"
    /\ last.a # last.b
    /\ IsCredit(accounts[last.a])
    /\ accounts[last.a].credit_balance = Cur(500)
    /\ accounts[last.b].cls = "DebitAccount"
    /\ accounts[last.b].balance = Cur(550)

\* C11: deposit on an active CreditAccount returns true and leaves
\* credit_balance - amount owed, or 0 when the repayment is larger; nothing
\* else of the account, and no other account, changes.
C11_CreditDeposit ==
    [][(/\ last'.op = "deposit"
        /\ IsCredit(accounts[last'.a])
        /\ accounts[last'.a].is_active)
       => /\ last'.ret = "True"
          /\ LET owed == accounts[last'.a].credit_balance
                 left == IF last'.amount >= owed THEN 0
                         ELSE owed - last'.amount
             IN  accounts' = [accounts EXCEPT ![last'.a].credit_balance = left]]_vars

\* a repayment of 500 has cleared a smaller debt; the balance is the initial one
C11_Witness ==
    /\ last.op = "deposit"
    /\ last.ret = "True"
    /\ last.amount = Cur(500)
    /\ IsCredit(accounts[last.a])
    /\ accounts[last.a].is_active
    /\ accounts[last.a].credit_balance = 0
    /\ accounts[last.a].balance \in InitialBalances
    /\ steps >= 3

HoldsFunds(acc) == acc.cls \in {"PayrollAccount", "DebitAccount"}

\* C12 (amounts >= 0): the balance of every PayrollAccount and DebitAccount is
\* >= 0 in every reachable state; withdraw on such an account returns true
\* exactly when it is active and amount <= balance, and then takes exactly
\* amount from the balance and changes nothing else.
C12_FundsNonNegative ==
    /\ [](\A k \in DOMAIN accounts :
             HoldsFunds(accounts[k]) => accounts[k].balance >= 0)
    /\ [][(last'.op = "withdraw" /\ HoldsFunds(accounts[last'.a])) =>
             IF accounts[last'.a].is_active
                /\ last'.amount <= accounts[last'.a].balance
             THEN /\ last'.ret = "True"
                  /\ accounts' =
                        [accounts EXCEPT ![last'.a].balance = @ - last'.amount]
             ELSE /\ last'.ret = "False"
                  /\ accounts' = accounts]_vars

\* the whole balance has been withdrawn
C12_Witness ==
    /\ last.op = "withdraw"
    /\ last.ret = "True"
    /\ last.amount > 0
    /\ accounts[last.a].cls = "DebitAccount"
    /\ accounts[last.a].balance = 0

\* C13: a monthly update adds 2% to the credit_balance of a CreditAccount
\* exactly when the account is active and owes more than 0, and changes
\* nothing else of it; it changes nothing of a PayrollAccount.
C13_CreditMonthly ==
    [][last'.op = "monthly_update" =>
          \A k \in DOMAIN accounts :
              LET pre == accounts[k]
                  post == accounts'[k]
              IN  /\ IsCredit(pre) =>
                        IF pre.is_active /\ pre.credit_balance > 0
                        THEN /\ 100 * (post.credit_balance - pre.credit_balance)
                                   = 2 * pre.credit_balance
                             /\ post = [pre EXCEPT
                                          !.credit_balance = post.credit_balance]
                        ELSE post = pre
                  /\ pre.cls = "PayrollAccount" => post = pre]_vars

\* 100 owed has become 102
C13_Witness ==
    /\ last.op = "monthly_update"
    /\ \E k \in DOMAIN accounts :
          /\ IsCredit(accounts[k])
          /\ accounts[k].is_active
          /\ accounts[k].credit_balance = Cur(102)

\* the orders in which the accounts of S can be visited, each once
VisitOrders(S) ==
    {o \in [1..Cardinality(S) -> S] : \A i, j \in DOMAIN o : o[i] = o[j] => i = j}

\* C14: a monthly update leaves each account as one apply_monthly_changes on
\* that account alone leaves it, and the registry as visiting the accounts
\* once each in any order leaves it.
C14_MonthlyAnyOrder ==
    [][last'.op = "monthly_update" =>
          /\ DOMAIN accounts' = DOMAIN accounts
          /\ \A k \in DOMAIN accounts :
                accounts'[k] = apply_monthly_changes(accounts[k])
          /\ \A o \in VisitOrders(DOMAIN accounts) :
                accounts' = ApplyInOrder(accounts, o)]_vars

\* two accounts have received interest in the same update
C14_Witness ==
    /\ last.op = "monthly_update"
    /\ \E j, k \in DOMAIN accounts :
          /\ j # k
          /\ accounts[j].cls = "DebitAccount"
          /\ accounts[j].balance = Cur(202)
          /\ accounts[k].cls = "DebitAccount"
          /\ 2 * accounts[k].balance = Cur(101)
          /\ ~accounts[k].is_active

\* C15: withdraw, deposit, transfer and transfer_funds change neither the
\* balance nor the credit_balance of an account that is inactive, be it the
\* source or the target of the call.
C15_InactiveUntouched ==
    [][last'.op \in {"withdraw", "deposit", "transfer", "transfer_funds"} =>
          \A k \in DOMAIN accounts :
              ~accounts[k].is_active =>
                  /\ accounts'[k].balance = accounts[k].balance
                  /\ IsCredit(accounts[k]) =>
                        accounts'[k].credit_balance = accounts[k].credit_balance]_vars

\* C16: activate_account and deactivate_account, on the account or through
\* the registry with a known id, leave the registry as it was but for that
\* account's flag, which is true, respectively false, whatever it was, and a
\* second call changes nothing more; through the registry with an unknown id
\* they change nothing; none raises.
C16_ActivateDeactivate ==
    [][last'.op \in {"activate_account", "deactivate_account",
                     "BankSystem.activate_account",
                     "BankSystem.deactivate_account"} =>
          LET flag == last'.op \in {"activate_account",
                                    "BankSystem.activate_account"}
          IN  /\ last'.ret = "None"
              /\ IF last'.a \in DOMAIN accounts
                 THEN /\ accounts' = [accounts EXCEPT ![last'.a].is_active = flag]
                      /\ activate_account(activate_account(accounts[last'.a]))
                            = activate_account(accounts[last'.a])
                      /\ deactivate_account(deactivate_account(accounts[last'.a]))
                            = deactivate_account(accounts[last'.a])
                 ELSE accounts' = accounts]_vars

\* an account deactivated by its monthly update has been deactivated again
C16_Witness ==
    /\ last.op \in {"deactivate_account", "BankSystem.deactivate_account"}
    /\ last.a \in DOMAIN accounts
    /\ accounts[last.a].cls = "DebitAccount"
    /\ 2 * accounts[last.a].balance = Cur(101)
    /\ ~accounts[last.a].is_active

RECURSIVE SumBalances(_, _)
SumBalances(accs, keys) ==
    IF keys = {} THEN 0
    ELSE LET k == CHOOSE x \in keys : TRUE
         IN  accs[k].balance + SumBalances(accs, keys \ {k})

\* the sum of the balance fields over the registry
TotalBalance(accs) == SumBalances(accs, DOMAIN accs)

C18_FlagChanges ==
    [][\A k \in DOMAIN accounts :
          accounts'[k].is_active # accounts[k].is_active =>
              \/ /\ last'.op \in {"activate_account",
                                  "BankSystem.activate_account"}
                 /\ last'.a = k
                 /\ accounts'[k].is_active
              \/ /\ last'.op \in {"deactivate_account",
                                  "BankSystem.deactivate_account"}
                 /\ last'.a = k
                 /\ ~accounts'[k].is_active
              \/ /\ last'.op = "monthly_update"
                 /\ accounts[k].cls = "DebitAccount"
                 /\ ~accounts'[k].is_active]_vars

\* after a monthly update: a DebitAccount that an update deactivated is
\* inactive, next to an inactive account whose balance is not below the
\* required balance
C18_Witness ==
    /\ last.op = "monthly_update"
    /\ \E j, k \in DOMAIN accounts :
          /\ accounts[k].cls = "DebitAccount"
          /\ 2 * accounts[k].balance = Cur(101)
          /\ ~accounts[k].is_active
          /\ accounts[j].cls = "DebitAccount"
          /\ accounts[j].balance = Cur(200)
          /\ ~accounts[j].is_active

\* what an account is created with and no operation is meant to change
Identity(acc) ==
    CASE acc.cls = "PayrollAccount" ->
            <<acc.cls, acc.account_number, acc.owner>>
      [] acc.cls = "DebitAccount" ->
            <<acc.cls, acc.account_number, acc.owner, acc.interest_rate,
              acc.required_balance>>
      [] acc.cls = "CreditAccount" ->
            <<acc.cls, acc.account_number, acc.owner, acc.interest_rate,
              acc.credit_limit>>

\* C19: every key maps to the account that carries it as account_number, and
\* no step changes the account_number, owner, class, credit_limit,
\* interest_rate or required_balance of an account of the registry.
C19_IdentityFixed ==
    /\ [](\A k \in DOMAIN accounts : accounts[k].account_number = k)
    /\ [][\A k \in DOMAIN accounts :
             /\ k \in DOMAIN accounts'
             /\ Identity(accounts'[k]) = Identity(accounts[k])]_vars

\* a CreditAccount has drawn on its credit for a DebitAccount, and a third
\* account exists
C19_Witness ==
    /\ last.op = "transfer_funds"
    /\ last.ret = "True"
    /\ last.a # last.b
    /\ IsCredit(accounts[last.a])
    /\ accounts[last.a].credit_balance = Cur(50)
    /\ accounts[last.a].credit_limit = Cur(500)
    /\ accounts[last.a].account_number = <<"A", "C", "C", "0", "0", "0", "2">>
    /\ accounts[last.b].cls = "DebitAccount"
    /\ accounts[last.b].required_balance = Cur(100)
    /\ Cardinality(DOMAIN accounts) = 3

====
